---- MODULE Spec2Model ----
(***************************************************************************)
(* A model of src/utils/dateTime.ts: the DateTime wrapper around a native  *)
(* Date object, its constructor (normalizer), formatters, day arithmetic,  *)
(* comparators and the half-hour slot generator.                           *)
(*                                                                         *)
(* Conventions of the model                                                *)
(*  - A time value is the number of SECONDS since 1970-01-01T00:00:00Z     *)
(*    (the code's time values are milliseconds; no operation of the class  *)
(*    reads or writes the millisecond field, so the model drops it), or    *)
(*    NaN, the time value of an Invalid Date.                              *)
(*  - A string is a sequence of one-character strings.  Characters that    *)
(*    are not ASCII are written as tokens: "nen" (U+5E74), "gatsu"         *)
(*    (U+6708), "nichi" (U+65E5), "choon" (U+30FC), "(" and ")" for the    *)
(*    full-width parentheses, and the weekday kanji by their readings.     *)
(*  - Time zones are fixed offsets (no daylight saving): the zone of the   *)
(*    running process is the variable tz, Asia/Tokyo is +9.                *)
(*  - Date objects live in a heap and are referred to by index, because    *)
(*    the constructor and the date accessor pass references, not copies.   *)
(***************************************************************************)
EXTENDS Integers, Sequences, FiniteSets, TLC

VARIABLES tz, now, ticks, heap, held, objs, last, loop

vars == <<tz, now, ticks, heap, held, objs, last, loop>>

----------------------------------------------------------------------------
(* Bounds of the model *)

(* DateTime objects the caller constructs *)
MaxNew == 1

(* Calls of addDate and subtractDate in one chain v.addDate(n).subtractDate(m) *)
MaxChain == 2

(* Clock ticks (seconds) *)
MaxTicks == 1

(* Day counts handed to afterDay, addDate, subtractDate: -MaxN..MaxN *)
MaxN == 1

(* Program constants *)

TokyoOffsetHours == 9

FirstSlotHour == 8

EndSlotHour == 20

SlotMinutes == 30

----------------------------------------------------------------------------
(* Time values *)

SecondsPerMinute == 60

SecondsPerHour == 60 * 60

SecondsPerDay == 24 * 60 * 60

NaN == 0 - 2000000000

IsNaN(t) == t = NaN

(* Number.prototype comparison: every comparison with NaN is false. *)
NumLt(a, b) == ~IsNaN(a) /\ ~IsNaN(b) /\ a < b

NumLe(a, b) == ~IsNaN(a) /\ ~IsNaN(b) /\ a <= b

----------------------------------------------------------------------------
(* The proleptic Gregorian calendar (ECMAScript MakeDay / YearFromTime ...) *)

IsLeap(y) == (y % 4 = 0 /\ y % 100 # 0) \/ y % 400 = 0

DaysInMonth(y, m) ==
    IF m = 2 THEN (IF IsLeap(y) THEN 29 ELSE 28)
    ELSE IF m \in {4, 6, 9, 11} THEN 30 ELSE 31

(* Days from 1970-01-01 to the civil date y-m-d; m may lie outside 1..12   *)
(* and d outside the month, and both carry over, as MakeDay does.          *)
DaysFromCivil(y0, m0, d) ==
    LET yy  == y0 + ((m0 - 1) \div 12)
        mm  == ((m0 - 1) % 12) + 1
        y   == IF mm <= 2 THEN yy - 1 ELSE yy
        era == y \div 400
        yoe == y - era * 400
        mp  == (mm + 9) % 12
        doy == (153 * mp + 2) \div 5 + d - 1
        doe == yoe * 365 + yoe \div 4 - yoe \div 100 + doy
    IN  era * 146097 + doe - 719468

CivilFromDays(z0) ==
    LET z   == z0 + 719468
        era == z \div 146097
        doe == z - era * 146097
        yoe == (doe - doe \div 1460 + doe \div 36524 - doe \div 146096) \div 365
        doy == doe - (365 * yoe + yoe \div 4 - yoe \div 100)
        mp  == (5 * doy + 2) \div 153
        d   == doy - (153 * mp + 2) \div 5 + 1
        m   == IF mp < 10 THEN mp + 3 ELSE mp - 9
        y   == yoe + era * 400 + (IF m <= 2 THEN 1 ELSE 0)
    IN  [y |-> y, m |-> m, d |-> d]

(* The wall-clock fields of time value t at UTC offset off (seconds). *)
Fields(t, off) ==
    LET w   == t + off
        day == w \div SecondsPerDay
        sod == w % SecondsPerDay
        c   == CivilFromDays(day)
    IN  [y |-> c.y, m |-> c.m, d |-> c.d,
         H |-> sod \div SecondsPerHour,
         M |-> (sod % SecondsPerHour) \div SecondsPerMinute,
         S |-> sod % SecondsPerMinute,
         wd |-> (day + 4) % 7]

(* The time value of wall-clock fields at UTC offset off; the fields carry *)
(* over (month 13 is January of the next year), as the Date constructor's. *)
FromFields(y, m, d, H, M, S, off) ==
    DaysFromCivil(y, m, d) * SecondsPerDay
      + H * SecondsPerHour + M * SecondsPerMinute + S - off

LocalOffset == tz * SecondsPerHour

TokyoOffset == TokyoOffsetHours * SecondsPerHour

----------------------------------------------------------------------------
(* Strings *)

Digits == <<"0", "1", "2", "3", "4", "5", "6", "7", "8", "9">>

IsDigit(c) == \E i \in 1..10 : Digits[i] = c

DigitVal(c) == (CHOOSE i \in 1..10 : Digits[i] = c) - 1

AllDigits(s, a, b) == \A i \in a..b : IsDigit(s[i])

RECURSIVE Num(_, _, _)
Num(s, a, b) == IF b < a THEN 0 ELSE Num(s, a, b - 1) * 10 + DigitVal(s[b])

(* String(n) for a non-negative integer: no padding. *)
RECURSIVE NumStr(_)
NumStr(n) == IF n < 10 THEN <<Digits[n + 1]>>
             ELSE NumStr(n \div 10) \o <<Digits[(n % 10) + 1]>>

(* dayjs padStart(n, w, "0") *)
Pad(n, w) == LET s == NumStr(n)
             IN  IF Len(s) >= w THEN s
                 ELSE [i \in 1..w |-> IF i <= w - Len(s) THEN "0"
                                      ELSE s[i - (w - Len(s))]]

----------------------------------------------------------------------------
(* String-to-time conversion of the engine and of dayjs *)

(* The shapes "YYYY?MM?DD" and "YYYY?MM?DD HH:mm:ss" (? any character). *)
DateShape(s) ==
    /\ Len(s) \in {10, 19}
    /\ AllDigits(s, 1, 4) /\ AllDigits(s, 6, 7) /\ AllDigits(s, 9, 10)
    /\ Len(s) = 19 =>
          /\ s[11] = " " /\ s[14] = ":" /\ s[17] = ":"
          /\ AllDigits(s, 12, 13) /\ AllDigits(s, 15, 16) /\ AllDigits(s, 18, 19)

(* The shape "YYYY?MM?DDTHH:mm:ssZ". *)
ZuluShape(s) ==
    /\ Len(s) = 20 /\ s[11] = "T" /\ s[14] = ":" /\ s[17] = ":" /\ s[20] = "Z"
    /\ AllDigits(s, 1, 4) /\ AllDigits(s, 6, 7) /\ AllDigits(s, 9, 10)
    /\ AllDigits(s, 12, 13) /\ AllDigits(s, 15, 16) /\ AllDigits(s, 18, 19)

ShapeH(s) == IF Len(s) >= 19 THEN Num(s, 12, 13) ELSE 0

ShapeM(s) == IF Len(s) >= 19 THEN Num(s, 15, 16) ELSE 0

ShapeS(s) == IF Len(s) >= 19 THEN Num(s, 18, 19) ELSE 0

(* new Date(v).getTime() for a string v (Date.parse):                      *)
(*   "YYYY"                  ISO year, UTC                                 *)
(*   "YYYY-MM-DD"            ISO date, UTC midnight                        *)
(*   "YYYY/MM/DD[ HH:mm:ss]" the legacy form every engine reads as local   *)
(*                           time; a field out of range gives NaN          *)
(*   "YYYY-MM-DD HH:mm:ss"   not ISO (no "T"): NaN on the engine the       *)
(*                           rewrite is written for (lines 38-43)          *)
(*   "YYYY-MM-DDTHH:mm:ssZ"  ISO date-time, UTC; with "/" for "-" it is    *)
(*                           neither ISO nor the legacy form: NaN          *)
(*   anything else           NaN                                           *)
DateParse(v) ==
    IF Len(v) = 4 /\ AllDigits(v, 1, 4)
    THEN FromFields(Num(v, 1, 4), 1, 1, 0, 0, 0, 0)
    ELSE IF ZuluShape(v)
    THEN IF /\ v[5] = "-" /\ v[8] = "-"
            /\ Num(v, 6, 7) \in 1..12
            /\ Num(v, 9, 10) \in 1..DaysInMonth(Num(v, 1, 4), Num(v, 6, 7))
            /\ ShapeH(v) \in 0..23 /\ ShapeM(v) \in 0..59 /\ ShapeS(v) \in 0..59
         THEN FromFields(Num(v, 1, 4), Num(v, 6, 7), Num(v, 9, 10),
                         ShapeH(v), ShapeM(v), ShapeS(v), 0)
         ELSE NaN
    ELSE IF ~DateShape(v) THEN NaN
    ELSE LET y == Num(v, 1, 4)
             m == Num(v, 6, 7)
             d == Num(v, 9, 10)
             inRange == /\ m \in 1..12 /\ d \in 1..31
                        /\ ShapeH(v) \in 0..23 /\ ShapeM(v) \in 0..59
                        /\ ShapeS(v) \in 0..59
         IN  IF ~inRange THEN NaN
             ELSE IF v[5] = "/" /\ v[8] = "/"
             THEN FromFields(y, m, d, ShapeH(v), ShapeM(v), ShapeS(v), LocalOffset)
             ELSE IF v[5] = "-" /\ v[8] = "-" /\ Len(v) = 10
                      /\ d <= DaysInMonth(y, m)
             THEN FromFields(y, m, d, 0, 0, 0, 0)
             ELSE NaN

(* dayjs(v).valueOf() for a string v: REGEX_PARSE takes "-" and "/" alike  *)
(* and builds new Date(y, m - 1, d || 1, h || 0, mi || 0, s || 0) in local *)
(* time, the fields carrying over; a string REGEX_PARSE does not match     *)
(* goes to new Date(v), and so does every string that ends in "Z".         *)
DayjsParse(v) ==
    IF DateShape(v) /\ v[5] \in {"-", "/"} /\ v[8] \in {"-", "/"}
    THEN FromFields(Num(v, 1, 4), Num(v, 6, 7), Num(v, 9, 10),
                    ShapeH(v), ShapeM(v), ShapeS(v), LocalOffset)
    ELSE DateParse(v)

----------------------------------------------------------------------------
(* DateTime: the static helpers and the constructor *)

(* String.prototype.replace with "-" for /-/g: the first "-" only. *)
formatSafariSupportFirst(v) ==
    [i \in 1..Len(v) |->
        IF v[i] = "-" /\ (\A j \in 1..(i - 1) : v[j] # "-") THEN "/" ELSE v[i]]

formatSafariSupport(v) == [i \in 1..Len(v) |-> IF v[i] = "-" THEN "/" ELSE v[i]]

isDate(v) == ~IsNaN(DateParse(v))

(* The constructor without the isDate test: new Date(safariSupportDate). *)
StringInstantNoFallback(date, c) == DateParse(formatSafariSupport(date))

(* The time value of the Date the constructor makes for a string (lines    *)
(* 20-27), the clock reading c being what new Date() returns.              *)
StringInstant(date, c) ==
    LET safariSupportDate == formatSafariSupport(date)
    IN  IF isDate(safariSupportDate) THEN DateParse(safariSupportDate) ELSE c

----------------------------------------------------------------------------
(* dayjs objects: a time value and the UTC offset its fields are read at *)

Dayjs(t) == [t |-> t, off |-> LocalOffset]

DayjsTz(x) == [t |-> x.t, off |-> TokyoOffset]

DayjsValid(x) == ~IsNaN(x.t)

DayjsAdd(x, n, unit) == IF IsNaN(x.t) THEN x ELSE [x EXCEPT !.t = x.t + n * unit]

DayjsSubtract(x, n, unit) == DayjsAdd(x, 0 - n, unit)

(* .hour(h), .minute(m), .second(s): set one wall-clock field. *)
DayjsHour(x, h) ==
    IF IsNaN(x.t) THEN x
    ELSE [x EXCEPT !.t = x.t + (h - Fields(x.t, x.off).H) * SecondsPerHour]

DayjsMinute(x, m) ==
    IF IsNaN(x.t) THEN x
    ELSE [x EXCEPT !.t = x.t + (m - Fields(x.t, x.off).M) * SecondsPerMinute]

DayjsSecond(x, s) ==
    IF IsNaN(x.t) THEN x
    ELSE [x EXCEPT !.t = x.t + (s - Fields(x.t, x.off).S)]

InvalidDateString == <<"I", "n", "v", "a", "l", "i", "d", " ", "D", "a", "t", "e">>

FormatYMD(x, sep) ==
    LET f == Fields(x.t, x.off)
    IN  Pad(f.y, 4) \o sep \o Pad(f.m, 2) \o sep \o Pad(f.d, 2)

FormatHMS(x, sep) ==
    LET f == Fields(x.t, x.off)
    IN  Pad(f.H, 2) \o sep \o Pad(f.M, 2) \o sep \o Pad(f.S, 2)

(* .format("YYYY-MM-DD") *)
FormatDate(x) == IF DayjsValid(x) THEN FormatYMD(x, <<"-">>) ELSE InvalidDateString

(* .format("YYYY-MM-DD HH:mm:ss") *)
FormatDateTime(x) ==
    IF DayjsValid(x) THEN FormatYMD(x, <<"-">>) \o <<" ">> \o FormatHMS(x, <<":">>)
    ELSE InvalidDateString

(* a.diff(b, "day"): (a - b) / one day, truncated toward zero (absFloor). *)
DayjsDiffDay(a, b) ==
    IF IsNaN(a) \/ IsNaN(b) THEN NaN
    ELSE IF a - b < 0 THEN 0 - ((b - a) \div SecondsPerDay)
    ELSE (a - b) \div SecondsPerDay

----------------------------------------------------------------------------
(* DateTime: the methods, as functions of the time value t of #date *)

NaNString == <<"N", "a", "N">>

JsNum(t, n) == IF IsNaN(t) THEN NaNString ELSE NumStr(n)

toJpString(t) ==
    LET f == Fields(t, LocalOffset)
    IN  JsNum(t, f.y) \o <<"nen">> \o JsNum(t, f.m) \o <<"gatsu">>
          \o JsNum(t, f.d) \o <<"nichi">>

week == <<"nichi", "getsu", "ka", "sui", "moku", "kin", "do">>

Undefined == "undefined"

(* week[this.#date.getDay()]: getDay() of an Invalid Date is NaN, and      *)
(* week[NaN] is undefined.                                                 *)
dayOfWeek(t) == IF IsNaN(t) THEN Undefined ELSE week[Fields(t, LocalOffset).wd + 1]

toJpStringWithWeek(t) ==
    IF dayOfWeek(t) = Undefined THEN <<"choon">>
    ELSE toJpString(t) \o <<"(", dayOfWeek(t), ")">>

toDateString(t) == FormatDate(DayjsTz(Dayjs(t)))

toDateJpString(t) ==
    LET x == DayjsTz(Dayjs(t))
        f == Fields(t, x.off)
    IN  IF ~DayjsValid(x) THEN InvalidDateString
        ELSE Pad(f.y, 4) \o <<"nen">> \o Pad(f.m, 2) \o <<"gatsu">>
               \o Pad(f.d, 2) \o <<"nichi">>

toDateStringWithTime(t) ==
    LET x == DayjsTz(Dayjs(t))
        f == Fields(t, x.off)
    IN  IF ~DayjsValid(x) THEN InvalidDateString
        ELSE FormatYMD(x, <<"-">>) \o <<" ">> \o Pad(f.H, 2) \o <<":">> \o Pad(f.M, 2)

toDateTimeString(t) == FormatDateTime(DayjsTz(Dayjs(t)))

toDateName(t) ==
    LET x == DayjsTz(Dayjs(t))
    IN  IF ~DayjsValid(x) THEN InvalidDateString
        ELSE FormatYMD(x, << >>) \o <<"_">> \o FormatHMS(x, << >>)

afterDay(t, day) == FormatDate(DayjsAdd(DayjsTz(Dayjs(t)), day, SecondsPerDay))

(* The time value of the Date handed to the new DateTime. *)
addDate(t, day) == DayjsAdd(DayjsTz(Dayjs(t)), day, SecondsPerDay).t

(* subtractDate written with add. *)
subtractDateAdds(t, day) == DayjsAdd(DayjsTz(Dayjs(t)), day, SecondsPerDay).t

subtractDate(t, day) == DayjsSubtract(DayjsTz(Dayjs(t)), day, SecondsPerDay).t

(* other is the time value dayjs derives from the argument. *)
isBefore(t, date) == NumLt(t, DayjsParse(date))

(* The operands of diff the other way round. *)
DaysDiffSwapped(t, date) == DayjsDiffDay(DayjsParse(date), t)

DaysDiff(t, date) == DayjsDiffDay(t, DayjsParse(date))

(* isSame(other, "day"): the same local calendar day. *)
isSameDateDay(t, other) ==
    /\ ~IsNaN(t) /\ ~IsNaN(other)
    /\ (t + LocalOffset) \div SecondsPerDay = (other + LocalOffset) \div SecondsPerDay

(* other is the time value of new DateTime(date).#date. *)
isSameDate(t, other) == NumLe(t, other) /\ NumLe(other, t)

(* One round of the loop of lines 178-183: the two strings pushed for      *)
(* hour i, t being the time value of new DateTime(date).#date.             *)
SlotPair(t, i) ==
    LET hour == DayjsSecond(DayjsMinute(DayjsHour(Dayjs(t), i), 0), 0)
        time == DayjsAdd(hour, SlotMinutes, SecondsPerMinute)
    IN  <<FormatDateTime(hour), FormatDateTime(time)>>

----------------------------------------------------------------------------
(* Inputs *)

LocalOffsets == {0, TokyoOffsetHours}

Seps == {"-", "/"}

Year == <<"1", "9", "7", "0">>

Months == {<<"0", "3">>, <<"1", "3">>}

Times == {<< >>, <<" ", "1", "0", ":", "1", "5", ":", "0", "0">>}

DateStrings ==
    {Year \o <<s1>> \o m \o <<s2>> \o <<"0", "1">> \o t :
        s1 \in Seps, s2 \in Seps, m \in Months, t \in Times}

ZuluStrings ==
    {Year \o <<s>> \o <<"0", "3">> \o <<s>> \o <<"0", "1">>
        \o <<"T", "1", "0", ":", "1", "5", ":", "0", "0", "Z">> : s \in Seps}

Strings == DateStrings \cup ZuluStrings \cup {Year, <<"x">>}

(* Time values a caller gives its own Date objects: an Invalid Date, and   *)
(* 1970-03-01T20:00:00Z, which is already 1970-03-02 in Tokyo.             *)
CallerTimes == {NaN, FromFields(1970, 3, 1, 20, 0, 0, 0)}

DayCounts == (0 - MaxN)..MaxN

(* The clock starts one second before local midnight. *)
NowStart == FromFields(1970, 3, 1, 23, 59, 59, LocalOffset)

----------------------------------------------------------------------------
(* State                                                                   *)
(*   tz     the UTC offset of the process's time zone, in hours            *)
(*   now    the clock: what new Date() reads                               *)
(*   heap   the Date objects: heap[d] is the time value of Date d          *)
(*   held   the Date objects the caller holds a reference to               *)
(*   objs   the DateTime objects the caller constructed: objs[o].date is   *)
(*          the Date #date refers to, objs[o].born its time value when o   *)
(*          was constructed                                                *)
(*   last   the call the caller's current statement has made, NoCall       *)
(*          between statements: operation, receiver, arguments, the clock  *)
(*          and the receiver's time value when it ran, and what it         *)
(*          returned.  A DateTime returned by addDate or subtractDate is   *)
(*          the record's temp (the time value of its own, new Date); the   *)
(*          statement may go on calling on it (receiver 0), and chain      *)
(*          lists the calls of such a chain v.addDate(n).subtractDate(m),  *)
(*          origin and originT being v and its time value at the start.    *)
(*   loop   the slot generator's frame: i (0 when not running), the        *)
(*          argument, the clock when the call began, and timesArray; the   *)
(*          call's record in last has that clock as "before"               *)

NoCall == [op |-> "none", recv |-> 0, arg |-> << >>, n |-> 0, clock |-> 0,
           before |-> 0, result |-> 0, temp |-> 0, chain |-> << >>,
           origin |-> 0, originT |-> 0]

Call(op, recv, arg, n, before, result) ==
    [NoCall EXCEPT !.op = op, !.recv = recv, !.arg = arg, !.n = n, !.clock = now,
                   !.before = before, !.result = result]

NoLoop == [i |-> 0, recv |-> 0, date |-> << >>, began |-> 0, timesArray |-> << >>]

Init ==
    /\ tz \in LocalOffsets
    /\ now = NowStart
    /\ ticks = 0
    /\ heap = << >>
    /\ held = {}
    /\ objs = << >>
    /\ last = NoCall
    /\ loop = NoLoop

(* The caller is between two statements. *)
Ready == last.op = "none" /\ loop.i = 0

(* The statement has a DateTime that addDate or subtractDate returned. *)
HasTemp == last.op \in {"addDate", "subtractDate"}

(* A receiver: a constructed DateTime, or 0 for the returned one. *)
CanCall(r) == IF r = 0 THEN HasTemp ELSE Ready /\ r \in DOMAIN objs

(* this.#date.getTime() *)
Instant(r) == IF r = 0 THEN last.temp ELSE heap[objs[r].date]

(* The DateTime a constructor call leaves: #date refers to Date d. *)
NewObj(d, t) == [date |-> d, born |-> t]

----------------------------------------------------------------------------
(* The environment: the clock and the caller *)

Tick ==
    /\ ticks < MaxTicks
    /\ now' = now + 1
    /\ ticks' = ticks + 1
    /\ UNCHANGED <<tz, heap, held, objs, last, loop>>

(* d.setTime(t) on a Date the caller holds *)
CallerSetTime(d, t) ==
    /\ Ready
    /\ d \in held
    /\ heap[d] # t
    /\ heap' = [heap EXCEPT ![d] = t]
    /\ UNCHANGED <<tz, now, ticks, held, objs, last, loop>>

(* The statement ends; what it returned is dropped. *)
Return ==
    /\ last.op # "none" /\ loop.i = 0
    /\ last' = NoCall
    /\ UNCHANGED <<tz, now, ticks, heap, held, objs, loop>>

----------------------------------------------------------------------------
(* The constructor (lines 17-32) and the date accessor (lines 34-36) *)

(* new DateTime(d) for a Date d = new Date(t) of the caller: the reference *)
(* is stored, and the caller keeps its own.                                *)
ConstructDate(t) ==
    /\ Ready
    /\ Len(objs) < MaxNew
    /\ heap' = Append(heap, t)
    /\ held' = held \cup {Len(heap) + 1}
    /\ objs' = Append(objs, NewObj(Len(heap) + 1, t))
    /\ last' = Call("new Date", Len(objs) + 1, << >>, 0, 0, t)
    /\ UNCHANGED <<tz, now, ticks, loop>>

(* new DateTime(s), s a string *)
ConstructString(s) ==
    /\ Ready
    /\ Len(objs) < MaxNew
    /\ heap' = Append(heap, StringInstant(s, now))
    /\ objs' = Append(objs, NewObj(Len(heap) + 1, StringInstant(s, now)))
    /\ last' = Call("new string", Len(objs) + 1, s, 0, 0, StringInstant(s, now))
    /\ UNCHANGED <<tz, now, ticks, held, loop>>

(* new DateTime(), new DateTime(null), new DateTime(undefined) *)
ConstructNone ==
    /\ Ready
    /\ Len(objs) < MaxNew
    /\ heap' = Append(heap, now)
    /\ objs' = Append(objs, NewObj(Len(heap) + 1, now))
    /\ last' = Call("new null", Len(objs) + 1, << >>, 0, 0, now)
    /\ UNCHANGED <<tz, now, ticks, held, loop>>

(* o.date: the caller gets the Date object itself. *)
GetDate(o) ==
    /\ CanCall(o)
    /\ objs[o].date \notin held
    /\ held' = held \cup {objs[o].date}
    /\ last' = Call("date", o, << >>, 0, Instant(o), objs[o].date)
    /\ UNCHANGED <<tz, now, ticks, heap, objs, loop>>

----------------------------------------------------------------------------
(* The formatters (lines 53-110, 147-149) and afterDay (lines 116-118) *)

Returns(op, r, arg, n, result) ==
    /\ CanCall(r)
    /\ last' = [Call(op, r, arg, n, Instant(r), result) EXCEPT
                  !.chain = last.chain, !.origin = last.origin,
                  !.originT = last.originT]
    /\ UNCHANGED <<tz, now, ticks, heap, held, objs, loop>>

ToJpString(o) == Returns("toJpString", o, << >>, 0, toJpString(Instant(o)))

ToJpStringWithWeek(o) ==
    Returns("toJpStringWithWeek", o, << >>, 0, toJpStringWithWeek(Instant(o)))

ToDateString(r) == Returns("toDateString", r, << >>, 0, toDateString(Instant(r)))

ToDateJpString(o) == Returns("toDateJpString", o, << >>, 0, toDateJpString(Instant(o)))

ToDateStringWithTime(o) ==
    Returns("toDateStringWithTime", o, << >>, 0, toDateStringWithTime(Instant(o)))

ToDateTimeString(o) ==
    Returns("toDateTimeString", o, << >>, 0, toDateTimeString(Instant(o)))

ToDateName(o) == Returns("toDateName", o, << >>, 0, toDateName(Instant(o)))

AfterDay(o, day) == Returns("afterDay", o, << >>, day, afterDay(Instant(o), day))

----------------------------------------------------------------------------
(* addDate, subtractDate (lines 124-134): a new Date in a new DateTime,    *)
(* the receiver r being a constructed DateTime or the one just returned.   *)

Derive(op, r, day, t) ==
    /\ CanCall(r)
    /\ Len(last.chain) < MaxChain
    /\ last' = [Call(op, r, << >>, day, Instant(r), "DateTime") EXCEPT
                  !.temp = t,
                  !.chain = Append(last.chain, [op |-> op, n |-> day]),
                  !.origin = IF r = 0 THEN last.origin ELSE r,
                  !.originT = IF r = 0 THEN last.originT ELSE Instant(r)]
    /\ UNCHANGED <<tz, now, ticks, heap, held, objs, loop>>

AddDate(r, day) == Derive("addDate", r, day, addDate(Instant(r), day))

SubtractDate(r, day) == Derive("subtractDate", r, day, subtractDate(Instant(r), day))

----------------------------------------------------------------------------
(* The comparators (lines 154-170) *)

IsBefore(o, date) == Returns("isBefore", o, date, 0, isBefore(Instant(o), date))

DaysDiffCall(o, date) == Returns("DaysDiff", o, date, 0, DaysDiff(Instant(o), date))

(* isSameDate(date), date a string: new DateTime(date) reads the clock. *)
IsSameDateString(o, date) ==
    Returns("isSameDate", o, date, 0,
            isSameDate(Instant(o), StringInstant(date, now)))

(* isSameDate(d), d a Date the caller holds *)
IsSameDateDate(o, d) ==
    /\ d \in held
    /\ Returns("isSameDate Date", o, << >>, d, isSameDate(Instant(o), heap[d]))

----------------------------------------------------------------------------
(* The slot generator (lines 175-186).  Every round of the loop makes a    *)
(* new DateTime(date), which reads the clock when date does not parse, so  *)
(* the rounds are steps and the clock may tick between them.               *)

SlotsBegin(o, date) ==
    /\ CanCall(o)
    /\ loop' = [i |-> FirstSlotHour, recv |-> o, date |-> date, began |-> now,
                timesArray |-> << >>]
    /\ UNCHANGED <<tz, now, ticks, heap, held, objs, last>>

SlotsRound ==
    /\ loop.i # 0 /\ loop.i < EndSlotHour
    /\ loop' = [loop EXCEPT
                  !.timesArray = @ \o SlotPair(StringInstant(loop.date, now), loop.i),
                  !.i = @ + 1]
    /\ UNCHANGED <<tz, now, ticks, heap, held, objs, last>>

SlotsReturn ==
    /\ loop.i # 0 /\ ~(loop.i < EndSlotHour)
    /\ last' = Call("slots", loop.recv, loop.date, 0, loop.began, loop.timesArray)
    /\ loop' = NoLoop
    /\ UNCHANGED <<tz, now, ticks, heap, held, objs>>

----------------------------------------------------------------------------
(* Specifications *)

Constructors ==
    \/ \E t \in CallerTimes : ConstructDate(t)
    \/ \E s \in Strings : ConstructString(s)
    \/ ConstructNone

(* The life of the objects: construction, the references the caller gets   *)
(* and what it does with them, and the formatters on whatever the          *)
(* constructor produced.                                                   *)
Next ==
    \/ Tick
    \/ Constructors
    \/ \E d \in DOMAIN heap, t \in CallerTimes : CallerSetTime(d, t)
    \/ \E o \in DOMAIN objs : GetDate(o)
    \/ \E o \in DOMAIN objs : ToJpString(o)
    \/ \E o \in DOMAIN objs : ToJpStringWithWeek(o)
    \/ \E o \in DOMAIN objs : ToDateString(o)
    \/ \E o \in DOMAIN objs : ToDateJpString(o)
    \/ \E o \in DOMAIN objs : ToDateStringWithTime(o)
    \/ \E o \in DOMAIN objs : ToDateTimeString(o)
    \/ \E o \in DOMAIN objs : ToDateName(o)
    \/ Return

Spec == Init /\ [][Next]_vars

(* Day arithmetic: afterDay, and the chains of addDate and subtractDate. *)
NextArith ==
    \/ Constructors
    \/ \E o \in DOMAIN objs, n \in DayCounts : AfterDay(o, n)
    \/ \E r \in {0} \cup DOMAIN objs, n \in DayCounts : AddDate(r, n)
    \/ \E r \in {0} \cup DOMAIN objs, n \in DayCounts : SubtractDate(r, n)
    \/ \E r \in {0} \cup DOMAIN objs : ToDateString(r)
    \/ Return

SpecArith == Init /\ [][NextArith]_vars

(* The comparators on whatever the constructor can produce. *)
NextCompare ==
    \/ Tick
    \/ Constructors
    \/ \E o \in DOMAIN objs, s \in Strings : IsBefore(o, s)
    \/ \E o \in DOMAIN objs, s \in Strings : DaysDiffCall(o, s)
    \/ \E o \in DOMAIN objs, s \in Strings : IsSameDateString(o, s)
    \/ \E o \in DOMAIN objs, d \in DOMAIN heap : IsSameDateDate(o, d)
    \/ Return

SpecCompare == Init /\ [][NextCompare]_vars

(* The slot generator, the clock ticking while it runs. *)
NextSlots ==
    \/ Tick
    \/ ConstructNone
    \/ \E o \in DOMAIN objs, s \in Strings : SlotsBegin(o, s)
    \/ SlotsRound
    \/ SlotsReturn
    \/ Return

SpecSlots == Init /\ [][NextSlots]_vars

----------------------------------------------------------------------------
(* What the claims are stated with *)

(* s with every "-" replaced by "/" *)
RECURSIVE Slashed(_)
Slashed(s) ==
    IF s = << >> THEN << >>
    ELSE <<IF Head(s) = "-" THEN "/" ELSE Head(s)>> \o Slashed(Tail(s))

(* a and b differ at most in "-" versus "/" *)
SameButSeparators(a, b) ==
    /\ Len(a) = Len(b)
    /\ \A i \in 1..Len(a) : a[i] = b[i] \/ (a[i] \in Seps /\ b[i] \in Seps)

(* a / d truncated toward zero, d > 0 *)
TruncDiv(a, d) == IF a < 0 THEN 0 - ((0 - a) \div d) ELSE a \div d

(* The year, month and day a "YYYY-MM-DD..." string shows, written as      *)
(* toJpString writes them.                                                 *)
JpOfIso(s) ==
    NumStr(Num(s, 1, 4)) \o <<"nen">> \o NumStr(Num(s, 6, 7)) \o <<"gatsu">>
      \o NumStr(Num(s, 9, 10)) \o <<"nichi">>

(* " HH:mm:ss" of the k-th slot: 08:00:00, 08:30:00, ..., 19:30:00 *)
SlotTime(k) ==
    <<" ">> \o Pad(8 + (k - 1) \div 2, 2) \o <<":">>
      \o (IF k % 2 = 1 THEN <<"0", "0">> ELSE <<"3", "0">>) \o <<":", "0", "0">>

----------------------------------------------------------------------------
(* C1: every DateTime holds a valid instant: whatever the constructor was  *)
(* given, the time value of #date is not NaN, in every reachable state.    *)
C1_AlwaysValid == \A o \in DOMAIN objs : ~IsNaN(Instant(o))

(* C2: a DateTime is immutable: the time value of #date is in every later  *)
(* state what it was when the object was constructed, whatever the caller  *)
(* does with the Date it passed in or got from the date accessor.          *)
C2_Immutable == \A o \in DOMAIN objs : Instant(o) = objs[o].born

(* C3: fail-open default: a string whose rewritten form does not parse, and *)
(* null or undefined, give the clock's reading at construction; a string   *)
(* whose rewritten form parses gives exactly the parsed time value.        *)
C3_FailOpen ==
    /\ last.op = "new string" =>
          LET parsed == DateParse(Slashed(last.arg))
          IN  objs[last.recv].born = (IF IsNaN(parsed) THEN last.clock ELSE parsed)
    /\ last.op = "new null" => objs[last.recv].born = last.clock

C3_Witness ==
    /\ last.op = "new string"
    /\ DateShape(last.arg)
    /\ IsNaN(DateParse(Slashed(last.arg)))
    /\ objs[last.recv].born = last.clock
    /\ now # last.clock

(* C4: separator-invariance: the rewritten string has no "-" left, and a   *)
(* string that differs from the argument only in "-" versus "/" gives, at  *)
(* the same clock reading, the same time value: both parse to it, or both  *)
(* fall back.                                                              *)
C4_SeparatorInvariance ==
    last.op = "new string" =>
       /\ \A i \in 1..Len(last.arg) : formatSafariSupport(last.arg)[i] # "-"
       /\ \A s \in Strings :
             SameButSeparators(last.arg, s) =>
                /\ isDate(formatSafariSupport(s)) = isDate(formatSafariSupport(last.arg))
                /\ StringInstant(s, last.clock) = objs[last.recv].born

C4_Witness ==
    /\ last.op = "new string"
    /\ \E i \in 1..Len(last.arg) : last.arg[i] = "-"
    /\ objs[last.recv].born # last.clock
    /\ \E s \in Strings : s # last.arg /\ SameButSeparators(last.arg, s)

(* C5, as claimed: daysDiff(other) is other minus the instant, truncated   *)
(* to whole days.                                                          *)
C5_OtherMinusInstant ==
    (last.op = "DaysDiff" /\ ~IsNaN(last.before) /\ ~IsNaN(DayjsParse(last.arg))) =>
       last.result = TruncDiv(DayjsParse(last.arg) - last.before, SecondsPerDay)

(* C5, amended: daysDiff(other) is the instant minus other, truncated      *)
(* toward zero to whole days: positive when the instant is a day or more   *)
(* later than other, negative when a day or more earlier, 0 when they are  *)
(* less than a day apart; NaN when either is not a time value.             *)
C5_InstantMinusOther ==
    last.op = "DaysDiff" =>
       LET a == last.before
           b == DayjsParse(last.arg)
           r == last.result
       IN  IF IsNaN(a) \/ IsNaN(b) THEN IsNaN(r)
           ELSE /\ ~IsNaN(r)
                /\ a >= b => /\ r >= 0
                             /\ r * SecondsPerDay <= a - b
                             /\ a - b < (r + 1) * SecondsPerDay
                /\ a <= b => /\ r <= 0
                             /\ r * SecondsPerDay >= a - b
                             /\ a - b > (r - 1) * SecondsPerDay

C5_Witness ==
    /\ last.op = "DaysDiff"
    /\ ~IsNaN(last.before) /\ ~IsNaN(DayjsParse(last.arg))
    /\ DayjsParse(last.arg) - last.before > SecondsPerDay
    /\ (DayjsParse(last.arg) - last.before) % SecondsPerDay # 0
    /\ last.result < 0

(* C6: slot generation returns exactly 24 strings, the k-th being the one  *)
(* calendar date they all share followed by the k-th time of 08:00:00,     *)
(* 08:30:00, ..., 19:30:00; the date is the local date of the normalized   *)
(* input.                                                                  *)
C6_Slots ==
    last.op = "slots" =>
       LET r == last.result
           parsed == DateParse(Slashed(last.arg))
       IN  /\ Len(r) = 24
           /\ \A k \in 1..Len(r) : r[k] = SubSeq(r[1], 1, 10) \o SlotTime(k)
           /\ ~IsNaN(parsed) => SubSeq(r[1], 1, 10) = FormatDate(Dayjs(parsed))

(* What holds of the slot generator: the claim for the strings whose       *)
(* rewritten form parses, and for the others as long as the clock did not  *)
(* tick during the call.                                                   *)
SlotsOfOneClockReading ==
    (last.op = "slots" /\ (isDate(Slashed(last.arg)) \/ last.before = last.clock)) =>
       LET r == last.result
           t == StringInstant(last.arg, last.clock)
       IN  /\ Len(r) = 24
           /\ \A k \in 1..Len(r) : r[k] = FormatDate(Dayjs(t)) \o SlotTime(k)

(* C7: round trip of day arithmetic: v.addDate(n).subtractDate(n) shows    *)
(* the toDateString() v showed before the two calls, and v still shows it  *)
(* after them.                                                             *)
C7_RoundTrip ==
    (/\ last.op = "toDateString" /\ Len(last.chain) = 2
     /\ last.chain[1].op = "addDate" /\ last.chain[2].op = "subtractDate"
     /\ last.chain[1].n = last.chain[2].n) =>
       /\ last.result = toDateString(last.originT)
       /\ toDateString(Instant(last.origin)) = toDateString(last.originT)

C7_Witness ==
    /\ last.op = "toDateString" /\ Len(last.chain) = 2
    /\ last.chain[1].op = "addDate" /\ last.chain[2].op = "subtractDate"
    /\ last.chain[1].n = last.chain[2].n /\ last.chain[1].n # 0
    /\ ~IsNaN(last.originT)
    /\ last.result = toDateString(Instant(last.origin))
    /\ afterDay(last.originT, last.chain[1].n) # last.result

C9_PlaceholderUnreachable ==
    last.op = "toJpStringWithWeek" =>
       /\ last.result # <<"choon">>
       /\ \E w \in 1..7 : last.result = toJpString(last.before) \o <<"(", week[w], ")">>

(* C10: the outputs of one DateTime agree on the calendar day: toJpString  *)
(* and toJpStringWithWeek show the year, month and day that toDateString,  *)
(* toDateJpString, toDateTimeString and toDateName show, in every time     *)
(* zone of the process.                                                    *)
C10_SameCalendarDay ==
    \A o \in DOMAIN objs :
       ~IsNaN(Instant(o)) =>
          LET t == Instant(o)
              iso == toDateString(t)
          IN  /\ toJpString(t) = JpOfIso(iso)
              /\ SubSeq(toJpStringWithWeek(t), 1, Len(toJpString(t))) = JpOfIso(iso)
              /\ SubSeq(toDateTimeString(t), 1, 10) = iso
              /\ SubSeq(toDateName(t), 1, 8) = SubSeq(iso, 1, 4) \o SubSeq(iso, 6, 7)
                                                  \o SubSeq(iso, 9, 10)
              /\ toDateJpString(t) = SubSeq(iso, 1, 4) \o <<"nen">> \o SubSeq(iso, 6, 7)
                                       \o <<"gatsu">> \o SubSeq(iso, 9, 10) \o <<"nichi">>

====
